---- MODULE Spec2Model ----
(***************************************************************************)
(* Model of reactlibapp/libraryapi/models.py: the Django models of the     *)
(* library-lending application.                                            *)
(*                                                                         *)
(* The state is the content of the relational store (one table per model,  *)
(* a function from primary key to row), the wall clock the ORM stamps rows *)
(* with, and a record of the last check_diff call.  Every action is one    *)
(* request-scoped ORM operation: it loads the rows it needs, runs the      *)
(* model's code and saves.                                                 *)
(***************************************************************************)
EXTENDS Integers, Sequences, FiniteSets, TLC

VARIABLES
    users,       \* auth User table:   pk -> [username, email, first_name, last_name]
    gusers,      \* GoogleUser table:  pk -> [google_id, app_user, appuser_picture]
    call,        \* the last check_diff call: what it was given and how it ended
    now,         \* the clock, in days
    nextpk,      \* per table, the next AutoField value
    authors,     \* Author table:      pk -> [name, created_at, updated_at]
    categories,  \* Category table:    pk -> [name, created_at, updated_at]
    books,       \* Book table:        pk -> [title, quantity, category, created_at, updated_at]
    book_author, \* Book.author table: pk -> [book, author]
    ratings,     \* Ratings table:     pk -> [score, user, book, created_at, updated_at]
    history,     \* History table:     pk -> [lending_date, return_date, returned, book,
                 \*                           user, created_at, updated_at]
    interest     \* Interest table:    pk -> [done, user, book, created_at, updated_at]

identity == <<users, gusers, call>>
library  == <<now, nextpk, authors, categories, books, book_author, ratings,
              history, interest>>
vars     == <<users, gusers, call, now, nextpk, authors, categories, books,
              book_author, ratings, history, interest>>

(***************************************************************************)
(* Identity: UserProxy.check_diff and GoogleUser.check_diff                *)
(***************************************************************************)

\* The users the store starts with: distinct usernames, as the auth User
\* table's unique constraint on username requires.
UserIds == {1, 2}
StoredUser ==
    <<[username |-> "old",  email |-> "old@x.com",  first_name |-> "Old",  last_name |-> "Name"],
      [username |-> "old2", email |-> "old2@x.com", first_name |-> "Old2", last_name |-> "Name2"]>>
\* User 1 signed in with Google and has a profile; user 2 is a local account.
GoogleUserIds == {1}
StoredGoogleUser ==
    <<[google_id |-> "x1", app_user |-> 1, appuser_picture |-> "http://pic/old"]>>

\* The values an identity payload may carry under each key: the empty string
\* and a non-empty value.
Incoming ==
    [name        |-> {"", "amir"},
     email       |-> {"", "a@b.com"},
     given_name  |-> {"", "Amir"},
     family_name |-> {"", "Khan"},
     picture     |-> {"", "http://pic/new"}]

\* How many of the keys a payload may lack.
MaxMissing == 1

\* The dictionaries over the keys `keys`, of which up to MaxMissing are missing.
Dicts(keys) ==
    UNION { { d \in [K -> UNION {Incoming[k] : k \in keys}] :
                \A k \in K : d[k] \in Incoming[k] } :
            K \in {S \in SUBSET keys : Cardinality(keys \ S) <= MaxMissing} }

UserKeys    == {"name", "email", "given_name", "family_name"}
PictureKeys == {"picture"}

\* The payloads the two check_diff methods are called with.
UserPayloads    == Dicts(UserKeys)
PicturePayloads == Dicts(PictureKeys)

\* idinfo[key] raises KeyError when the key is missing; the dict literal
\* `data` is built before the loop, so one missing key ends the call there.
UserProxyReads(idinfo) == UserKeys \subseteq DOMAIN idinfo
UserProxyData(idinfo) ==
    [username   |-> idinfo["name"],
     email      |-> idinfo["email"],
     first_name |-> idinfo["given_name"],
     last_name  |-> idinfo["family_name"]]

GoogleUserReads(idinfo) == PictureKeys \subseteq DOMAIN idinfo
GoogleUserData(idinfo) == [appuser_picture |-> idinfo["picture"]]

\* The loop with its test dropped: every field of data is written.
SetAlways(self, data) ==
    [f \in DOMAIN self |-> IF f \in DOMAIN data THEN data[f] ELSE self[f]]

\* The loop with the emptiness test inverted: only empty values are written.
SetWhenEmpty(self, data) ==
    [f \in DOMAIN self |->
        IF f \in DOMAIN data /\ self[f] # data[f] /\ data[f] = ""
        THEN data[f] ELSE self[f]]

\* for field in data:
\*     if getattr(self, field) != data[field] and data[field] != '':
\*         setattr(self, field, data[field])
SetDiff(self, data) ==
    [f \in DOMAIN self |->
        IF f \in DOMAIN data /\ self[f] # data[f] /\ data[f] # ""
        THEN data[f] ELSE self[f]]

\* User.save() of an existing row: an UPDATE of the row, which the store
\* refuses (IntegrityError) when another row holds the username.
UsernameTaken(table, pk, inst) ==
    \E other \in DOMAIN table : other # pk /\ table[other].username = inst.username

\* A dict that answers '' for a missing key instead of raising.
Lenient(idinfo, keys) ==
    [k \in keys |-> IF k \in DOMAIN idinfo THEN idinfo[k] ELSE ""]

\* check_diff reading the payload with a default: no KeyError.
UserProxyCheckDiffLenient(table, pk, idinfo) ==
    LET inst == SetDiff(table[pk], UserProxyData(Lenient(idinfo, UserKeys)))
    IN  IF UsernameTaken(table, pk, inst)
        THEN [outcome |-> "IntegrityError", inst |-> inst, table |-> table]
        ELSE [outcome |-> "ok", inst |-> inst, table |-> [table EXCEPT ![pk] = inst]]

\* check_diff on a table whose username column is not unique.
UserProxyCheckDiffNoUnique(table, pk, idinfo) ==
    IF ~UserProxyReads(idinfo)
    THEN [outcome |-> "KeyError", inst |-> table[pk], table |-> table]
    ELSE LET inst == SetDiff(table[pk], UserProxyData(idinfo))
         IN  [outcome |-> "ok", inst |-> inst, table |-> [table EXCEPT ![pk] = inst]]

\* UserProxy.check_diff(idinfo) on the instance loaded from row pk: how the
\* call ends, the instance as the call leaves it, and the table after it.
UserProxyCheckDiff(table, pk, idinfo) ==
    IF ~UserProxyReads(idinfo)
    THEN [outcome |-> "KeyError", inst |-> table[pk], table |-> table]
    ELSE LET inst == SetDiff(table[pk], UserProxyData(idinfo))
         IN  IF UsernameTaken(table, pk, inst)
             THEN [outcome |-> "IntegrityError", inst |-> inst, table |-> table]
             ELSE [outcome |-> "ok", inst |-> inst,
                   table |-> [table EXCEPT ![pk] = inst]]

\* check_diff with google_id among the fields of data.
GoogleUserCheckDiffAll(table, pk, idinfo) ==
    IF ~GoogleUserReads(idinfo)
    THEN [outcome |-> "KeyError", inst |-> table[pk], table |-> table]
    ELSE LET inst == SetDiff(table[pk],
                             [appuser_picture |-> idinfo["picture"],
                              google_id       |-> idinfo["picture"]])
         IN  [outcome |-> "ok", inst |-> inst, table |-> [table EXCEPT ![pk] = inst]]

\* GoogleUser.check_diff(idinfo) on the instance loaded from row pk.  The
\* UPDATE rewrites google_id and app_user with the values just loaded, so
\* neither unique constraint can refuse it.
GoogleUserCheckDiff(table, pk, idinfo) ==
    IF ~GoogleUserReads(idinfo)
    THEN [outcome |-> "KeyError", inst |-> table[pk], table |-> table]
    ELSE LET inst == SetDiff(table[pk], GoogleUserData(idinfo))
         IN  [outcome |-> "ok", inst |-> inst, table |-> [table EXCEPT ![pk] = inst]]

\* The record of the last call: the method, the row it was called on, the
\* payload, how it ended, the instance as it left it, the two tables as they
\* were before it, and whether it repeats the call before it.
NoCall == [op |-> "none", pk |-> 0, idinfo |-> <<>>, outcome |-> "none",
           inst |-> <<>>, users |-> <<>>, gusers |-> <<>>, again |-> FALSE]

Called(op, pk, idinfo, r) ==
    [op |-> op, pk |-> pk, idinfo |-> idinfo, outcome |-> r.outcome, inst |-> r.inst,
     users |-> users, gusers |-> gusers,
     again |-> (call.op = op /\ call.pk = pk /\ call.idinfo = idinfo)]

\* A sign-in: the request looks the record up and calls check_diff on it with
\* the identity payload.
UserCheckDiff(pk, idinfo) ==
    /\ pk \in DOMAIN users
    /\ LET r == UserProxyCheckDiff(users, pk, idinfo)
       IN  /\ users' = r.table
           /\ call' = Called("UserProxy.check_diff", pk, idinfo, r)
    /\ UNCHANGED <<gusers, library>>

GoogleCheckDiff(pk, idinfo) ==
    /\ pk \in DOMAIN gusers
    /\ LET r == GoogleUserCheckDiff(gusers, pk, idinfo)
       IN  /\ gusers' = r.table
           /\ call' = Called("GoogleUser.check_diff", pk, idinfo, r)
    /\ UNCHANGED <<users, library>>

EmptyLibrary ==
    /\ now = 0
    /\ nextpk = [Author |-> 1, Category |-> 1, Book |-> 1, Book_author |-> 1,
                 Ratings |-> 1, History |-> 1, Interest |-> 1]
    /\ authors = <<>>
    /\ categories = <<>>
    /\ books = <<>>
    /\ book_author = <<>>
    /\ ratings = <<>>
    /\ history = <<>>
    /\ interest = <<>>

InitIdentity ==
    /\ users = [pk \in UserIds |-> StoredUser[pk]]
    /\ gusers = [pk \in GoogleUserIds |-> StoredGoogleUser[pk]]
    /\ call = NoCall
    /\ EmptyLibrary

NextIdentity ==
    \/ \E pk \in UserIds, idinfo \in UserPayloads : UserCheckDiff(pk, idinfo)
    \/ \E pk \in GoogleUserIds, idinfo \in PicturePayloads : GoogleCheckDiff(pk, idinfo)

SpecIdentity == InitIdentity /\ [][NextIdentity]_vars

(***************************************************************************)
(* The identity claims                                                     *)
(***************************************************************************)

UserFields == {"username", "email", "first_name", "last_name"}
KeyOf == [username |-> "name", email |-> "email", first_name |-> "given_name",
          last_name |-> "family_name", appuser_picture |-> "picture"]

OnUser   == call.op = "UserProxy.check_diff"
OnGoogle == call.op = "GoogleUser.check_diff"
Complete == IF OnUser THEN UserKeys \subseteq DOMAIN call.idinfo
                      ELSE PictureKeys \subseteq DOMAIN call.idinfo

\* The diff-and-update policy for one field: old value, incoming value, new value.
Policy(old, in, new) ==
    /\ in = "" => new = old
    /\ (in # "" /\ in # old) => new = in
    /\ in = old => new = old

\* The call asks for a username another user holds.
AsksTakenName ==
    /\ OnUser /\ Complete /\ call.idinfo["name"] # ""
    /\ \E other \in DOMAIN call.users :
          other # call.pk /\ call.users[other].username = call.idinfo["name"]

\* C1 as stated: after every UserProxy.check_diff call given the four fields,
\* each mapped field of the stored row follows the policy on its own incoming
\* value, however the call ends.
C1_EveryCall ==
    (OnUser /\ Complete) =>
        \A f \in UserFields :
            Policy(call.users[call.pk][f], call.idinfo[KeyOf[f]], users[call.pk][f])

\* C1, amended: a UserProxy.check_diff call returns unless its payload lacks
\* a key or its non-empty incoming name is another user's username.  After a
\* call that returns, each mapped field of the stored row follows the policy
\* (empty incoming value: as before; non-empty and different: the incoming
\* value; equal: as before), each field by its own incoming value.  After a
\* call that raises, every stored row is as it was before the call.
C1_FieldPolicy ==
    OnUser =>
        /\ (call.outcome = "ok") <=> (Complete /\ ~AsksTakenName)
        /\ call.outcome = "ok" =>
              \A f \in UserFields :
                  Policy(call.users[call.pk][f], call.idinfo[KeyOf[f]],
                         users[call.pk][f])
        /\ call.outcome # "ok" => users = call.users

\* The scenario of the specification: ('', a@b.com, Amir, '') against
\* (old, old@x.com, Old, Name) gives (old, a@b.com, Amir, Name).
C1_Witness ==
    /\ OnUser /\ call.outcome = "ok" /\ call.pk = 1
    /\ call.users[1] = StoredUser[1]
    /\ call.idinfo = [name |-> "", email |-> "a@b.com", given_name |-> "Amir",
                      family_name |-> ""]
    /\ users[1] = [username |-> "old", email |-> "a@b.com", first_name |-> "Amir",
                   last_name |-> "Name"]

UniqueUsernames ==
    \A a, b \in DOMAIN users : a # b => users[a].username # users[b].username

\* C6: no two stored users ever have the same username; a call whose non-empty
\* incoming name is another user's username ends in the store's constraint
\* error and leaves every stored user record as it was.
C6_UniqueHandle ==
    /\ UniqueUsernames
    /\ AsksTakenName => (call.outcome = "IntegrityError" /\ users = call.users)

\* User 2 holds "amir" and user 1 asks for it, with a new email besides.
C6_Witness ==
    /\ AsksTakenName /\ call.outcome = "IntegrityError" /\ call.pk = 1
    /\ users[2].username = "amir"
    /\ call.idinfo["email"] = "a@b.com" /\ users[1].email = "old@x.com"

\* C8: GoogleUser.check_diff changes the picture exactly when the incoming one
\* is non-empty and differs from the stored one, and leaves google_id,
\* app_user and every User row as they were.
C8_PictureOnly ==
    OnGoogle =>
        LET old == call.gusers[call.pk]
            new == gusers[call.pk]
        IN  /\ IF Complete /\ call.idinfo["picture"] # ""
                           /\ call.idinfo["picture"] # old.appuser_picture
               THEN new.appuser_picture = call.idinfo["picture"]
               ELSE new.appuser_picture = old.appuser_picture
            /\ new.google_id = old.google_id
            /\ new.app_user = old.app_user
            /\ DOMAIN gusers = DOMAIN call.gusers
            /\ users = call.users

C8_Witness ==
    /\ OnGoogle /\ call.outcome = "ok"
    /\ call.gusers[1].appuser_picture = "http://pic/old"
    /\ gusers[1].appuser_picture = "http://pic/new"
    /\ users[1].username = "amir"

\* A call that repeats the call before it (same record, same payload) leaves
\* both tables as that call left them.
SameAsOnce == call.again => (users = call.users /\ gusers = call.gusers)

\* C9 as stated: check_diff applied twice leaves what one application leaves,
\* and after any one application given its keys, every mapped field whose
\* incoming value is non-empty holds that value.
C9_EveryCall ==
    /\ SameAsOnce
    /\ (OnUser /\ Complete) =>
          \A f \in UserFields :
              call.idinfo[KeyOf[f]] # "" => users[call.pk][f] = call.idinfo[KeyOf[f]]
    /\ (OnGoogle /\ Complete) =>
          (call.idinfo["picture"] # "" =>
              gusers[call.pk].appuser_picture = call.idinfo["picture"])

\* C9, amended: a check_diff call that repeats the call before it (same
\* record, same payload) leaves both tables as that call left them, however
\* the two calls end; after a call that returned, every mapped field whose
\* incoming value is non-empty holds it; after a call that raised, both
\* tables are as they were.
C9_Idempotent ==
    /\ SameAsOnce
    /\ (OnUser /\ call.outcome = "ok") =>
          \A f \in UserFields :
              call.idinfo[KeyOf[f]] # "" => users[call.pk][f] = call.idinfo[KeyOf[f]]
    /\ (OnGoogle /\ call.outcome = "ok") =>
          (call.idinfo["picture"] # "" =>
              gusers[call.pk].appuser_picture = call.idinfo["picture"])
    /\ ((OnUser \/ OnGoogle) /\ call.outcome # "ok") =>
          (users = call.users /\ gusers = call.gusers)

\* The second of two equal calls, each of which had fields to write.
C9_Witness ==
    /\ OnUser /\ call.again /\ call.outcome = "ok"
    /\ call.idinfo = [name |-> "amir", email |-> "a@b.com", given_name |-> "",
                      family_name |-> "Khan"]
    /\ users[call.pk] = [username |-> "amir", email |-> "a@b.com",
                         first_name |-> StoredUser[call.pk].first_name,
                         last_name |-> "Khan"]

\* C10: a call whose payload lacks a key the method reads ends in KeyError
\* with the instance and both tables as they were, whatever the other keys
\* carry.
C10_AllOrNothing ==
    ((OnUser \/ OnGoogle) /\ ~Complete) =>
        /\ call.outcome = "KeyError"
        /\ call.inst = (IF OnUser THEN call.users[call.pk] ELSE call.gusers[call.pk])
        /\ users = call.users
        /\ gusers = call.gusers

\* family_name is missing; the other three are non-empty and different.
C10_Witness ==
    /\ OnUser /\ call.outcome = "KeyError" /\ call.pk = 1
    /\ call.idinfo = [name |-> "amir", email |-> "a@b.com", given_name |-> "Amir"]
    /\ users[1] = StoredUser[1]

(***************************************************************************)
(* The library: BaseInfo and the models derived from it                    *)
(***************************************************************************)

\* The texts rows are created with, in ascending (code point) order, and
\* the order of two texts.
Alphabetical == <<"Asimov", "Borges", "Dune", "Emma", "Fiction", "Science">>
AuthorNames   == {"Asimov", "Borges"}
Titles        == {"Dune", "Emma"}
CategoryNames == {"Fiction", "Science"}
Quantities    == {-1, 0, 3}
Rank(text) == CHOOSE i \in 1..Len(Alphabetical) : Alphabetical[i] = text

\* null (return_date of a loan not yet returned; no lending_date given)
None == -1

\* The last day of the clock, and how many rows a run inserts.
MaxTime    == 1
MaxInserts == 2

Inserted ==
    nextpk["Author"] + nextpk["Category"] + nextpk["Book"] + nextpk["Book_author"]
    + nextpk["Ratings"] + nextpk["History"] + nextpk["Interest"]
MayInsert == Inserted < 9 + MaxInserts   \* the store starts with nextpk summing to 9

\* BaseInfo. created_at = DateTimeField(auto_now_add=True): set to the clock
\* when the row is inserted, whatever the caller gave. updated_at =
\* DateTimeField(auto_now=True): set to the clock on every save.
Stamps == {"created_at", "updated_at"}
Added(row, t) ==
    [f \in DOMAIN row \cup Stamps |-> IF f \in Stamps THEN t ELSE row[f]]
Saved(row, t) == [row EXCEPT !.updated_at = t]

\* lending_date without auto_now_add: the date the caller gave is kept.
LendingDateGiven(given, t) == IF given = None THEN t ELSE given

\* History.lending_date = DateTimeField(auto_now_add=True): as created_at.
LendingDate(given, t) == t

\* _check_status with < for <=.
StatusStrict(book) == IF book.quantity < 0 THEN "Not Available" ELSE "Available"

\* Book._check_status, read through the property `status`.
Status(book) == IF book.quantity <= 0 THEN "Not Available" ELSE "Available"

\* History._expected_return_date: datetime.date.today() + timedelta(weeks=2)
day_14 == 14
ExpectedReturnDate(record, today) == today + day_14

\* on_delete=models.CASCADE: the rows of `table` whose `field` refers to a
\* deleted row go with it.
Referring(table, field, gone) == {pk \in DOMAIN table : table[pk][field] \in gone}
Without(table, gone) == [pk \in DOMAIN table \ gone |-> table[pk]]

\* on_delete=models.DO_NOTHING
DoNothing(table, field, gone) == table

Cascade(table, field, gone) == Without(table, Referring(table, field, gone))

\* Meta.ordering of each model: the field, and whether descending ('-').
BookOrderingReversed == [field |-> "title", desc |-> TRUE]   \* ordering = ['-title']
AuthorOrdering   == [field |-> "name", desc |-> FALSE]
CategoryOrdering == [field |-> "name", desc |-> FALSE]
BookOrdering     == [field |-> "title", desc |-> FALSE]
HistoryOrdering  == [field |-> "created_at", desc |-> TRUE]
InterestOrdering == [field |-> "created_at", desc |-> TRUE]

\* ORDER BY: a text column by code point, a timestamp column by time.
Key(row, field) == IF field = "created_at" THEN row[field] ELSE Rank(row[field])
Precedes(a, b, ordering) ==
    IF ordering.desc THEN Key(b, ordering.field) < Key(a, ordering.field)
                     ELSE Key(a, ordering.field) < Key(b, ordering.field)

\* Model.objects.all(): the rows in the model's default ordering. Rows with
\* equal keys come in an order the store chooses.
Orders(S) == {s \in [1..Cardinality(S) -> S] : \A i, j \in DOMAIN s : i # j => s[i] # s[j]}
Listings(table, ordering) ==
    {[i \in DOMAIN s |-> table[s[i]]] : s \in
        {o \in Orders(DOMAIN table) :
            \A i, j \in DOMAIN o : i < j => ~Precedes(table[o[j]], table[o[i]], ordering)}}

----------------------------------------------------------------------------
\* The requests. Each one is an ORM call on rows that exist when it is made.

Tick ==
    /\ now < MaxTime
    /\ now' = now + 1
    /\ UNCHANGED <<identity, nextpk, authors, categories, books, book_author,
                   ratings, history, interest>>

Take(model) == nextpk' = [nextpk EXCEPT ![model] = @ + 1]

CreateAuthor(name) ==
    /\ MayInsert
    /\ authors' = authors @@ (nextpk["Author"] :> Added([name |-> name], now))
    /\ Take("Author")
    /\ UNCHANGED <<identity, now, categories, books, book_author, ratings, history, interest>>

UpdateAuthor(pk, name) ==
    /\ pk \in DOMAIN authors
    /\ authors' = [authors EXCEPT ![pk] = Saved([@ EXCEPT !.name = name], now)]
    /\ UNCHANGED <<identity, now, nextpk, categories, books, book_author, ratings,
                   history, interest>>

DeleteAuthor(pk) ==
    /\ pk \in DOMAIN authors
    /\ authors' = Without(authors, {pk})
    /\ book_author' = Cascade(book_author, "author", {pk})
    /\ UNCHANGED <<identity, now, nextpk, categories, books, ratings, history, interest>>

CreateCategory(name) ==
    /\ MayInsert
    /\ categories' = categories @@ (nextpk["Category"] :> Added([name |-> name], now))
    /\ Take("Category")
    /\ UNCHANGED <<identity, now, authors, books, book_author, ratings, history, interest>>

UpdateCategory(pk, name) ==
    /\ pk \in DOMAIN categories
    /\ categories' = [categories EXCEPT ![pk] = Saved([@ EXCEPT !.name = name], now)]
    /\ UNCHANGED <<identity, now, nextpk, authors, books, book_author, ratings,
                   history, interest>>

\* What goes with a set of books.
DeleteBooks(gone) ==
    /\ books' = Without(books, gone)
    /\ book_author' = Cascade(book_author, "book", gone)
    /\ ratings' = Cascade(ratings, "book", gone)
    /\ history' = Cascade(history, "book", gone)
    /\ interest' = Cascade(interest, "book", gone)

DeleteCategory(pk) ==
    /\ pk \in DOMAIN categories
    /\ categories' = Without(categories, {pk})
    /\ DeleteBooks(Referring(books, "category", {pk}))
    /\ UNCHANGED <<identity, now, nextpk, authors>>

CreateBook(title, quantity, category) ==
    /\ MayInsert
    /\ category \in DOMAIN categories
    /\ books' = books @@ (nextpk["Book"] :>
          Added([title |-> title, quantity |-> quantity, category |-> category], now))
    /\ Take("Book")
    /\ UNCHANGED <<identity, now, authors, categories, book_author, ratings, history,
                   interest>>

UpdateBook(pk, title, quantity) ==
    /\ pk \in DOMAIN books
    /\ books' = [books EXCEPT
                    ![pk] = Saved([@ EXCEPT !.title = title, !.quantity = quantity], now)]
    /\ UNCHANGED <<identity, now, nextpk, authors, categories, book_author, ratings,
                   history, interest>>

\* book.author.add(author): a row of the many-to-many table, unless there.
AddBookAuthor(book, author) ==
    /\ MayInsert
    /\ book \in DOMAIN books /\ author \in DOMAIN authors
    /\ ~\E pk \in DOMAIN book_author :
          book_author[pk] = [book |-> book, author |-> author]
    /\ book_author' = book_author @@
          (nextpk["Book_author"] :> [book |-> book, author |-> author])
    /\ Take("Book_author")
    /\ UNCHANGED <<identity, now, authors, categories, books, ratings, history, interest>>

DeleteBook(pk) ==
    /\ pk \in DOMAIN books
    /\ DeleteBooks({pk})
    /\ UNCHANGED <<identity, now, nextpk, authors, categories>>

CreateRatings(user, book, score) ==
    /\ MayInsert
    /\ user \in DOMAIN users /\ book \in DOMAIN books
    /\ ratings' = ratings @@ (nextpk["Ratings"] :>
          Added([score |-> score, user |-> user, book |-> book], now))
    /\ Take("Ratings")
    /\ UNCHANGED <<identity, now, authors, categories, books, book_author, history,
                   interest>>

DeleteRatings(pk) ==
    /\ pk \in DOMAIN ratings
    /\ ratings' = Without(ratings, {pk})
    /\ UNCHANGED <<identity, now, nextpk, authors, categories, books, book_author,
                   history, interest>>

\* History(user=, book=).save(): a loan is issued. A caller that gives a
\* date gives it for lending_date, created_at and updated_at.
CreateHistory(user, book, given) ==
    /\ MayInsert
    /\ user \in DOMAIN users /\ book \in DOMAIN books
    /\ LET loan == [lending_date |-> LendingDate(given, now), return_date |-> None,
                    returned |-> FALSE, book |-> book, user |-> user]
           inst == IF given = None THEN loan
                   ELSE loan @@ [created_at |-> given, updated_at |-> given]
       IN  history' = history @@ (nextpk["History"] :> Added(inst, now))
    /\ Take("History")
    /\ UNCHANGED <<identity, now, authors, categories, books, book_author, ratings,
                   interest>>

\* The loan is returned: return_date and returned are set and the row saved.
ReturnHistory(pk) ==
    /\ pk \in DOMAIN history
    /\ history' = [history EXCEPT
                      ![pk] = Saved([@ EXCEPT !.return_date = now, !.returned = TRUE], now)]
    /\ UNCHANGED <<identity, now, nextpk, authors, categories, books, book_author,
                   ratings, interest>>

DeleteHistory(pk) ==
    /\ pk \in DOMAIN history
    /\ history' = Without(history, {pk})
    /\ UNCHANGED <<identity, now, nextpk, authors, categories, books, book_author,
                   ratings, interest>>

CreateInterest(user, book) ==
    /\ MayInsert
    /\ user \in DOMAIN users /\ book \in DOMAIN books
    /\ interest' = interest @@ (nextpk["Interest"] :>
          Added([done |-> FALSE, user |-> user, book |-> book], now))
    /\ Take("Interest")
    /\ UNCHANGED <<identity, now, authors, categories, books, book_author, ratings,
                   history>>

UpdateInterest(pk, done) ==
    /\ pk \in DOMAIN interest
    /\ interest' = [interest EXCEPT ![pk] = Saved([@ EXCEPT !.done = done], now)]
    /\ UNCHANGED <<identity, now, nextpk, authors, categories, books, book_author,
                   ratings, history>>

DeleteInterest(pk) ==
    /\ pk \in DOMAIN interest
    /\ interest' = Without(interest, {pk})
    /\ UNCHANGED <<identity, now, nextpk, authors, categories, books, book_author,
                   ratings, history>>

\* user.delete(): the profile, the ratings, the loans and the interests of
\* the user go with it.
DeleteUser(pk) ==
    /\ pk \in DOMAIN users
    /\ users' = Without(users, {pk})
    /\ gusers' = Cascade(gusers, "app_user", {pk})
    /\ ratings' = Cascade(ratings, "user", {pk})
    /\ history' = Cascade(history, "user", {pk})
    /\ interest' = Cascade(interest, "user", {pk})
    /\ UNCHANGED <<call, now, nextpk, authors, categories, books, book_author>>

\* The store the library requests start from: the two users, one category
\* and one book of it, all created on day 0.
InitLibrary ==
    /\ users = [pk \in UserIds |-> StoredUser[pk]]
    /\ gusers = [pk \in GoogleUserIds |-> StoredGoogleUser[pk]]
    /\ call = NoCall
    /\ now = 0
    /\ nextpk = [Author |-> 1, Category |-> 2, Book |-> 2, Book_author |-> 1,
                 Ratings |-> 1, History |-> 1, Interest |-> 1]
    /\ authors = <<>>
    /\ categories = (1 :> Added([name |-> "Fiction"], 0))
    /\ books = (1 :> Added([title |-> "Dune", quantity |-> 0, category |-> 1], 0))
    /\ book_author = <<>>
    /\ ratings = <<>>
    /\ history = <<>>
    /\ interest = <<>>

Pks == 1..(1 + MaxInserts)

\* Books are stocked, restocked and withdrawn as the days pass.
NextStatus ==
    \/ Tick
    \/ \E title \in Titles, quantity \in Quantities, category \in Pks :
          CreateBook(title, quantity, category)
    \/ \E pk \in Pks, quantity \in Quantities : UpdateBook(pk, books[pk].title, quantity)
    \/ \E pk \in Pks : DeleteBook(pk)

SpecStatus == InitLibrary /\ [][NextStatus]_vars

\* Rows of every model derived from BaseInfo are created and saved again as
\* the days pass.
NextStamps ==
    \/ Tick
    \/ CreateAuthor("Asimov")
    \/ \E pk \in Pks : UpdateAuthor(pk, "Borges")
    \/ CreateCategory("Science")
    \/ \E pk \in Pks : UpdateCategory(pk, "Science")
    \/ \E category \in Pks : CreateBook("Emma", 3, category)
    \/ \E pk \in Pks : UpdateBook(pk, books[pk].title, 3)
    \/ \E book \in Pks : CreateRatings(1, book, 5)
    \/ \E book \in Pks, given \in {None, 0} : CreateHistory(1, book, given)
    \/ \E pk \in Pks : ReturnHistory(pk)
    \/ \E book \in Pks : CreateInterest(1, book)
    \/ \E pk \in Pks : UpdateInterest(pk, TRUE)

SpecStamps == InitLibrary /\ [][NextStamps]_vars

\* The five listed models are written and deleted as the days pass.
NextListing ==
    \/ Tick
    \/ \E name \in AuthorNames : CreateAuthor(name)
    \/ \E pk \in Pks, name \in AuthorNames : UpdateAuthor(pk, name)
    \/ \E pk \in Pks : DeleteAuthor(pk)
    \/ \E name \in CategoryNames : CreateCategory(name)
    \/ \E pk \in Pks, name \in CategoryNames : UpdateCategory(pk, name)
    \/ \E pk \in Pks : DeleteCategory(pk)
    \/ \E title \in Titles, category \in Pks : CreateBook(title, 3, category)
    \/ \E pk \in Pks, title \in Titles : UpdateBook(pk, title, books[pk].quantity)
    \/ \E pk \in Pks : DeleteBook(pk)
    \/ \E book \in Pks : CreateHistory(1, book, None)
    \/ \E pk \in Pks : ReturnHistory(pk)
    \/ \E pk \in Pks : DeleteHistory(pk)
    \/ \E book \in Pks : CreateInterest(1, book)
    \/ \E pk \in Pks : UpdateInterest(pk, TRUE)
    \/ \E pk \in Pks : DeleteInterest(pk)

SpecListing == InitLibrary /\ [][NextListing]_vars

\* Rows are created and deleted, and what refers to a deleted row goes with it.
NextCascade ==
    \/ CreateAuthor("Asimov")
    \/ \E pk \in Pks : DeleteAuthor(pk)
    \/ CreateCategory("Science")
    \/ \E pk \in Pks : DeleteCategory(pk)
    \/ \E category \in Pks : CreateBook("Emma", 3, category)
    \/ \E book \in Pks, author \in Pks : AddBookAuthor(book, author)
    \/ \E pk \in Pks : DeleteBook(pk)
    \/ \E user \in UserIds, book \in Pks : CreateRatings(user, book, 5)
    \/ \E pk \in Pks : DeleteRatings(pk)
    \/ \E user \in UserIds, book \in Pks : CreateHistory(user, book, None)
    \/ \E pk \in Pks : DeleteHistory(pk)
    \/ \E user \in UserIds, book \in Pks : CreateInterest(user, book)
    \/ \E pk \in Pks : DeleteInterest(pk)
    \/ \E pk \in UserIds : DeleteUser(pk)

SpecCascade == InitLibrary /\ [][NextCascade]_vars

(***************************************************************************)
(* The library claims                                                      *)
(***************************************************************************)

\* C2: whatever books were created and however their quantities were
\* updated, a book's status reads "Available" exactly when its stored
\* quantity is above 0 and "Not Available" otherwise; no row stores a status.
C2_StatusFollowsQuantity ==
    \A pk \in DOMAIN books :
        /\ Status(books[pk]) = "Available" <=> books[pk].quantity > 0
        /\ Status(books[pk]) = "Not Available" <=> books[pk].quantity <= 0
        /\ "status" \notin DOMAIN books[pk]

\* Dune, created with quantity 0, was restocked to 3 on a later day and reads
\* "Available"; another book has a negative quantity.
C2_Witness ==
    /\ 1 \in DOMAIN books
    /\ books[1].title = "Dune" /\ books[1].quantity = 3
    /\ books[1].updated_at > books[1].created_at
    /\ Status(books[1]) = "Available"
    /\ \E pk \in DOMAIN books : books[pk].quantity < 0 /\ Status(books[pk]) = "Not Available"

\* C3: on whatever day it is read, exptdreturn_date of a History record is
\* the record's lending_date plus 14 days.
C3_FourteenDaysAfterLending ==
    \A pk \in DOMAIN history :
        ExpectedReturnDate(history[pk], now) = history[pk].lending_date + 14

AscendingBy(list, field) ==
    \A i, j \in DOMAIN list : i < j => Rank(list[i][field]) <= Rank(list[j][field])
NewestFirst(list) ==
    \A i, j \in DOMAIN list : i < j => list[i].created_at >= list[j].created_at
Whole(lists, table) ==
    /\ lists # {}
    /\ \A list \in lists : Len(list) = Cardinality(DOMAIN table)

\* C4: every default listing of Authors and of Categories is in ascending
\* order of name, of Books in ascending order of title, of History and of
\* Interest in descending order of created_at; each lists every row once.
C4_DefaultOrdering ==
    /\ Whole(Listings(authors, AuthorOrdering), authors)
    /\ Whole(Listings(categories, CategoryOrdering), categories)
    /\ Whole(Listings(books, BookOrdering), books)
    /\ Whole(Listings(history, HistoryOrdering), history)
    /\ Whole(Listings(interest, InterestOrdering), interest)
    /\ \A list \in Listings(authors, AuthorOrdering) : AscendingBy(list, "name")
    /\ \A list \in Listings(categories, CategoryOrdering) : AscendingBy(list, "name")
    /\ \A list \in Listings(books, BookOrdering) : AscendingBy(list, "title")
    /\ \A list \in Listings(history, HistoryOrdering) : NewestFirst(list)
    /\ \A list \in Listings(interest, InterestOrdering) : NewestFirst(list)

\* Two loans issued on different days are listed the later one first, and
\* the book renamed from Dune to Emma is the one listed.
C4_Witness ==
    /\ \E list \in Listings(history, HistoryOrdering) :
          Len(list) = 2 /\ list[1].created_at = 1 /\ list[2].created_at = 0
    /\ \E list \in Listings(books, BookOrdering) : Len(list) = 1 /\ list[1].title = "Emma"

\* C5: every Ratings, History and Interest row refers to a User and a Book
\* that exist, and every Book to a Category that exists.
C5_NoDanglingReference ==
    /\ \A pk \in DOMAIN ratings :
          ratings[pk].user \in DOMAIN users /\ ratings[pk].book \in DOMAIN books
    /\ \A pk \in DOMAIN history :
          history[pk].user \in DOMAIN users /\ history[pk].book \in DOMAIN books
    /\ \A pk \in DOMAIN interest :
          interest[pk].user \in DOMAIN users /\ interest[pk].book \in DOMAIN books
    /\ \A pk \in DOMAIN books : books[pk].category \in DOMAIN categories

\* A rating and a loan were recorded on the book of category 1; the category
\* is deleted, and the book, the rating and the loan are gone with it.
C5_Witness ==
    /\ nextpk["Ratings"] = 2 /\ nextpk["History"] = 2
    /\ 1 \notin DOMAIN categories
    /\ books = <<>> /\ ratings = <<>> /\ history = <<>>
    /\ DOMAIN users = UserIds

StampedOnce(old, new) ==
    \A pk \in DOMAIN new :
        IF pk \in DOMAIN old
        THEN /\ new[pk].created_at = old[pk].created_at
             /\ new[pk] # old[pk] => new[pk].updated_at = now
        ELSE new[pk].created_at = now /\ new[pk].updated_at = now
LentOnce(old, new) ==
    \A pk \in DOMAIN new :
        IF pk \in DOMAIN old
        THEN new[pk].lending_date = old[pk].lending_date
        ELSE new[pk].lending_date = now
CreatedBeforeUpdated(table) ==
    \A pk \in DOMAIN table : table[pk].created_at <= table[pk].updated_at

\* C7: a History row's lending_date is the day the row was created, whatever
\* date the caller gave, and no later save changes it; created_at of every
\* row of a BaseInfo model is the day it was created and never changes; every
\* save of a row sets its updated_at to the day of the save; and created_at
\* <= updated_at in every row.
C7_StampsSetOnce ==
    [][ /\ StampedOnce(authors, authors')
        /\ StampedOnce(categories, categories')
        /\ StampedOnce(books, books')
        /\ StampedOnce(ratings, ratings')
        /\ StampedOnce(history, history')
        /\ StampedOnce(interest, interest')
        /\ LentOnce(history, history')
        /\ CreatedBeforeUpdated(authors') /\ CreatedBeforeUpdated(categories')
        /\ CreatedBeforeUpdated(books') /\ CreatedBeforeUpdated(ratings')
        /\ CreatedBeforeUpdated(history') /\ CreatedBeforeUpdated(interest') ]_vars

\* A loan issued on day 0 was returned on day 1, and the book created on day
\* 0 was saved again on day 1.
C7_Witness ==
    /\ \E pk \in DOMAIN history :
          /\ history[pk].returned /\ history[pk].return_date = 1
          /\ history[pk].lending_date = 0 /\ history[pk].created_at = 0
          /\ history[pk].updated_at = 1
    /\ books[1].created_at = 0 /\ books[1].updated_at = 1

====
